---------------------------- MODULE Spec2Model ----------------------------
(***************************************************************************)
(* A model of frr-agent: the session loop of src/main.rs (accept, decode,  *)
(* dispatch, respond), the signal-handling thread of main(), and the       *)
(* two-phase reload of src/reload.rs (stage, --test, --reload).            *)
(*                                                                         *)
(* Strings are sequences of bytes (0..255), as they are on the wire and on *)
(* disk.  64-bit header fields are sequences of 8 bytes; their numeric     *)
(* value is computed where it is below 2^31 (the range the model checker's *)
(* integers hold) and is otherwise compared byte-wise.                     *)
(***************************************************************************)
EXTENDS Integers, Sequences, FiniteSets, TLC

(***************************************************************************)
(* Bounds of the model.                                                    *)
(***************************************************************************)
\* connections the clients open in one run
MaxConns == 2
\* chunks (frames or truncated frames) the clients write in one run
MaxChunks == 2
\* the longest payload of the codec's round trip
MaxPayload == 3

(***************************************************************************)
(* Program constants.                                                      *)
(***************************************************************************)
\* let mut len_buf = [0u8; 8]; let mut genid_buf = [0u8; 8];
FieldBytes == 8
\* BytesMut::with_capacity(msg.len() + 16): the two header fields
HeaderBytes == 16
\* exit(1): bad loglevel, listener creation failed
ExitFailure == 1
\* std::process::exit(0) of the signal thread
ExitSignalled == 0
\* the exit status of a Rust process whose main thread panicked
ExitPanic == 101
SIGINT == 2
SIGQUIT == 3
SIGABRT == 6
SIGTERM == 15

\* the builds the model covers: a 64-bit little-endian one and a 32-bit
\* big-endian one (ptr_bytes: the bytes of usize)
Platforms ==
    { [ptr_bytes |-> 8, big_endian |-> FALSE],
      [ptr_bytes |-> 4, big_endian |-> TRUE] }

(***************************************************************************)
(* Program strings, as bytes.                                              *)
(***************************************************************************)
\* "Ok"
OkStr == <<79, 107>>
\* "KEEPALIVE"
KeepaliveStr == <<75, 69, 69, 80, 65, 76, 73, 86, 69>>
\* #[error("Reloading error")]
ReloadErrStr == <<82, 101, 108, 111, 97, 100, 105, 110, 103, 32, 101, 114, 114, 111, 114>>
\* #[error("Failed to write config file: {0}")]
WriteFailedPrefix == <<70, 97, 105, 108, 101, 100, 32, 116, 111, 32, 119, 114, 105, 116, 101, 32, 99, 111, 110, 102, 105, 103, 32, 102, 105, 108, 101, 58, 32>>
\* #[error("Failed to spawn reloader: {0}")]
SpawnFailedPrefix == <<70, 97, 105, 108, 101, 100, 32, 116, 111, 32, 115, 112, 97, 119, 110, 32, 114, 101, 108, 111, 97, 100, 101, 114, 58, 32>>
\* #[error("Failed to wait for reloader: {0}")]
WaitFailedPrefix == <<70, 97, 105, 108, 101, 100, 32, 116, 111, 32, 119, 97, 105, 116, 32, 102, 111, 114, 32, 114, 101, 108, 111, 97, 100, 101, 114, 58, 32>>
\* #[error("Internal failure: {0}")]
InternalFailurePrefix == <<73, 110, 116, 101, 114, 110, 97, 108, 32, 102, 97, 105, 108, 117, 114, 101, 58, 32>>
\* "Bad filename"
BadFilenameStr == <<66, 97, 100, 32, 102, 105, 108, 101, 110, 97, 109, 101>>
\* "Could not create dir: "
CreateDirDetail == <<67, 111, 117, 108, 100, 32, 110, 111, 116, 32, 99, 114, 101, 97, 116, 101, 32, 100, 105, 114, 58, 32>>
\* "Unable to create file: "
CreateFileDetail == <<85, 110, 97, 98, 108, 101, 32, 116, 111, 32, 99, 114, 101, 97, 116, 101, 32, 102, 105, 108, 101, 58, 32>>
\* "Unable to write config file: "
WriteFileDetail == <<85, 110, 97, 98, 108, 101, 32, 116, 111, 32, 119, 114, 105, 116, 101, 32, 99, 111, 110, 102, 105, 103, 32, 102, 105, 108, 101, 58, 32>>
\* "Unable to read written file: "
ReadFileDetail == <<85, 110, 97, 98, 108, 101, 32, 116, 111, 32, 114, 101, 97, 100, 32, 119, 114, 105, 116, 116, 101, 110, 32, 102, 105, 108, 101, 58, 32>>
\* "frr-config-gen-"
ConfPrefix == <<102, 114, 114, 45, 99, 111, 110, 102, 105, 103, 45, 103, 101, 110, 45>>
\* ".conf"
ConfExt == <<46, 99, 111, 110, 102>>

(***************************************************************************)
(* The operating system's errors the model draws from, and how Rust        *)
(* renders them ({e:?} and {e}).                                           *)
(***************************************************************************)
\* EACCES
OsErrors == {13}
\* {e:?}: Os { code: 13, kind: PermissionDenied, message: "Permission denied" }
ErrDebug(e) == <<79, 115, 32, 123, 32, 99, 111, 100, 101, 58, 32, 49, 51, 44, 32, 107, 105, 110, 100, 58, 32, 80, 101, 114, 109, 105, 115, 115, 105, 111, 110, 68, 101, 110, 105, 101, 100, 44, 32, 109, 101, 115, 115, 97, 103, 101, 58, 32, 34, 80, 101, 114, 109, 105, 115, 115, 105, 111, 110, 32, 100, 101, 110, 105, 101, 100, 34, 32, 125>>
\* {e}: Permission denied (os error 13)
ErrDisplay(e) == <<80, 101, 114, 109, 105, 115, 115, 105, 111, 110, 32, 100, 101, 110, 105, 101, 100, 32, 40, 111, 115, 32, 101, 114, 114, 111, 114, 32, 49, 51, 41>>

(***************************************************************************)
(* Bytes and 64-bit fields.                                                *)
(***************************************************************************)
Reverse(s) == [i \in 1..Len(s) |-> s[Len(s) + 1 - i]]

\* the 8 bytes of a 64-bit two's-complement value v, least significant
\* first, for -2^31 <= v < 2^31
LeBytes(v) ==
    [i \in 1..FieldBytes |->
        IF i <= 4 THEN (v \div (256 ^ (i - 1))) % 256
        ELSE IF v < 0 THEN 255 ELSE 0]

\* to_ne_bytes / from_ne_bytes: the platform's byte order
NeOrder(plat, bytes) == IF plat.big_endian THEN Reverse(bytes) ELSE bytes

\* u64::to_ne_bytes, i64::to_ne_bytes
ToNeBytes(plat, v) == NeOrder(plat, LeBytes(v))

\* the bytes 5..8 of a little-endian field are all b
HighBytesAre(le, b) == \A i \in 5..FieldBytes : le[i] = b

\* the unsigned value is below 2^31
U64Small(le) == HighBytesAre(le, 0) /\ le[4] < 128

\* the unsigned value, where it is below 2^31
U64Value(le) == le[1] + le[2] * 256 + le[3] * 65536 + le[4] * 16777216

\* i64::from_ne_bytes, for the values -2^31 <= v < 2^31
I64FromNeBytes(plat, buf) ==
    LET le == NeOrder(plat, buf) IN
    CASE HighBytesAre(le, 0) /\ le[4] < 128 ->
            le[1] + le[2] * 256 + le[3] * 65536 + le[4] * 16777216
      [] HighBytesAre(le, 255) /\ le[4] >= 128 ->
            le[1] + le[2] * 256 + le[3] * 65536 + (le[4] - 256) * 16777216

\* usize::try_from(u64) is Ok: the value fits the platform's usize
FitsUsize(plat, le) == plat.ptr_bytes = FieldBytes \/ HighBytesAre(le, 0)

\* the value exceeds isize::MAX: the top bit of the usize is set
ExceedsIsizeMax(plat, le) == le[plat.ptr_bytes] >= 128

\* a continuation byte of UTF-8
IsCont(b) == b \in 128..191

RECURSIVE IsUtf8(_)
\* String::from_utf8 is Ok
IsUtf8(s) ==
    IF s = <<>> THEN TRUE
    ELSE LET n == Len(s)
             b1 == s[1]
             Rest(k) == IsUtf8(SubSeq(s, k + 1, n))
         IN  IF b1 < 128 THEN Rest(1)
             ELSE IF b1 \in 194..223 THEN n >= 2 /\ IsCont(s[2]) /\ Rest(2)
             ELSE IF b1 = 224
                  THEN n >= 3 /\ s[2] \in 160..191 /\ IsCont(s[3]) /\ Rest(3)
             ELSE IF b1 \in (225..236) \cup (238..239)
                  THEN n >= 3 /\ IsCont(s[2]) /\ IsCont(s[3]) /\ Rest(3)
             ELSE IF b1 = 237
                  THEN n >= 3 /\ s[2] \in 128..159 /\ IsCont(s[3]) /\ Rest(3)
             ELSE IF b1 = 240
                  THEN n >= 4 /\ s[2] \in 144..191 /\ IsCont(s[3])
                       /\ IsCont(s[4]) /\ Rest(4)
             ELSE IF b1 \in 241..243
                  THEN n >= 4 /\ IsCont(s[2]) /\ IsCont(s[3])
                       /\ IsCont(s[4]) /\ Rest(4)
             ELSE IF b1 = 244
                  THEN n >= 4 /\ s[2] \in 128..143 /\ IsCont(s[3])
                       /\ IsCont(s[4]) /\ Rest(4)
             ELSE FALSE

(***************************************************************************)
(* The wire codec (main.rs).                                               *)
(***************************************************************************)
\* send_response with the two header fields in the other order
WireMsgGenidFirst(plat, genid, msg) ==
    ToNeBytes(plat, genid) \o ToNeBytes(plat, Len(msg)) \o msg

\* send_response's wire message: |length|genid|data|
WireMsg(plat, genid, msg) ==
    ToNeBytes(plat, Len(msg)) \o ToNeBytes(plat, genid) \o msg

\* receive_request on a stream holding the unread bytes rx, eof telling
\* that the peer has closed.  kind is
\*   "blocked"  a read_exact waits for bytes
\*   "ok"       Ok((genid, request)); rest are the bytes left unread
\*   "err"      Err(_); step names the failing step
\*   "overflow" vec![0u8; msg_size] panics: capacity overflow
\*   "big"      msg_size is 2^31 or more: the allocation may abort the
\*              process; if it succeeds the read of the body waits
ReceiveResult(plat, rx, eof) ==
    LET Short(step) == [kind |-> IF eof THEN "err" ELSE "blocked", step |-> step]
    IN
    IF Len(rx) < FieldBytes THEN Short("msg-len")
    ELSE IF Len(rx) < HeaderBytes THEN Short("genid")
    ELSE
      LET len_le == NeOrder(plat, SubSeq(rx, 1, FieldBytes))
          genid_buf == SubSeq(rx, FieldBytes + 1, HeaderBytes)
      IN
      IF ~FitsUsize(plat, len_le) THEN [kind |-> "err", step |-> "length"]
      ELSE IF ExceedsIsizeMax(plat, len_le) THEN [kind |-> "overflow"]
      ELSE IF ~U64Small(len_le) THEN [kind |-> "big", eof |-> eof]
      ELSE
        LET msg_size == U64Value(len_le) IN
        IF Len(rx) - HeaderBytes < msg_size THEN Short("body")
        ELSE
          LET rx_buff == SubSeq(rx, HeaderBytes + 1, HeaderBytes + msg_size) IN
          IF ~IsUtf8(rx_buff) THEN [kind |-> "err", step |-> "utf8"]
          ELSE [kind |-> "ok",
                genid_buf |-> genid_buf,
                genid |-> I64FromNeBytes(plat, genid_buf),
                request |-> rx_buff,
                rest |-> SubSeq(rx, HeaderBytes + msg_size + 1, Len(rx))]


(***************************************************************************)
(* The reload orchestrator's pure parts (reload.rs).                       *)
(***************************************************************************)
RECURSIVE DecimalNat(_)
\* the decimal digits of n >= 0
DecimalNat(n) ==
    IF n < 10 THEN <<48 + n>> ELSE DecimalNat(n \div 10) \o <<48 + (n % 10)>>

\* format!("{genid}")
Decimal(v) == IF v < 0 THEN <<45>> \o DecimalNat(-v) ELSE DecimalNat(v)

\* write_config_file's conf_file, below outdir:
\* push(format!("frr-config-gen-{genid}")); set_extension("conf")
ConfFile(genid) == ConfPrefix \o Decimal(genid) \o ConfExt

\* the steps of write_config_file that can fail
StageSteps == {"dir", "open", "write", "read"}

\* the detail string of COnfigFileWriteFailed for a failing step
StageDetail(step, e) ==
    CASE step = "dir" -> CreateDirDetail \o ErrDebug(e)
      [] step = "open" -> CreateFileDetail \o ErrDebug(e)
      [] step = "write" -> WriteFileDetail \o ErrDebug(e)
      [] step = "read" -> ReadFileDetail \o ErrDebug(e)

\* write_config_file creating the file and returning before any byte has
\* reached it
StagedFilesUnwritten(fs, genid, config, fail, written) ==
    LET path == ConfFile(genid)
    IN  IF fail \in {"dir", "open"} THEN fs
        ELSE [p \in DOMAIN fs \cup {path} |->
                 IF p = path THEN <<>> ELSE fs[p]]

\* write_config_file opening the file without truncate(true), the writes
\* going to its end
StagedFilesAppend(fs, genid, config, fail, written) ==
    LET path == ConfFile(genid)
        old == IF path \in DOMAIN fs THEN fs[path] ELSE <<>>
        content ==
            CASE fail = "write" -> old \o SubSeq(config, 1, written)
              [] OTHER -> old \o config
    IN  IF fail \in {"dir", "open"} THEN fs
        ELSE [p \in DOMAIN fs \cup {path} |->
                 IF p = path THEN content ELSE fs[p]]

\* the file system after write_config_file(genid, config, outdir), fs being
\* the one before; fail is "none" or the failing step, and written the
\* number of bytes a failing write_all has put into the file
StagedFiles(fs, genid, config, fail, written) ==
    LET path == ConfFile(genid)
        content ==
            CASE fail = "write" -> SubSeq(config, 1, written)
              [] OTHER -> config
    IN  IF fail \in {"dir", "open"} THEN fs
        ELSE [p \in DOMAIN fs \cup {path} |->
                 IF p = path THEN content ELSE fs[p]]

\* write_config_file's result
StageResult(genid, fail, e) ==
    IF fail = "none"
    THEN [ok |-> TRUE, conf_file |-> ConfFile(genid)]
    ELSE [ok |-> FALSE,
          err |-> [variant |-> "COnfigFileWriteFailed",
                   detail |-> StageDetail(fail, e)]]

\* FrrErr's Display (thiserror's #[error(..)])
ErrToString(err) ==
    CASE err.variant = "COnfigFileWriteFailed" -> WriteFailedPrefix \o err.detail
      [] err.variant = "CmdSpawnFailed" -> SpawnFailedPrefix \o err.detail
      [] err.variant = "CmdWaitFailed" -> WaitFailedPrefix \o err.detail
      [] err.variant = "ReloadErr" -> ReloadErrStr
      [] err.variant = "Failure" -> InternalFailurePrefix \o err.detail

\* frr_reload: match do_frr_reload(..) { Ok(()) => "Ok", Err(e) => e.to_string() }
FrrReloadString(res) == IF res.ok THEN OkStr ELSE ErrToString(res.err)

\* execute's first argument: vec!["--test"] or vec!["--reload"]
PhaseFlag(test) == IF test THEN "--test" ELSE "--reload"

\* build_reload_args with the defaults of Args
ReloadArgs ==
    <<"--stdout", "--debug", "--bindir", "/usr/local/bin",
      "--rundir", "/var/run/frr", "--confdir", "/etc/frr">>

\* the exit statuses of the external tool
ExitStatuses == {0, 1}

\* what wait_with_output returns: the exit status and the captured stdout
\* and stderr, here nothing or one letter each ("o", "E")
ToolOutputs ==
    {[status |-> s, stdout |-> t[1], stderr |-> t[2]] :
        s \in ExitStatuses, t \in {<<<<>>, <<>>>>, <<<<111>>, <<69>>>>}}

\* execute with the exit status left unexamined
ExecuteResultAnyStatus(output) == [ok |-> TRUE]

\* execute returning the captured stderr in its error
ExecuteResultWithStderr(output) ==
    IF output.status # 0
    THEN [ok |-> FALSE,
          err |-> [variant |-> "CmdWaitFailed", detail |-> output.stderr]]
    ELSE [ok |-> TRUE]

\* the result of execute once wait_with_output has returned output
ExecuteResult(output) ==
    IF output.status # 0
    THEN [ok |-> FALSE, err |-> [variant |-> "ReloadErr"]]
    ELSE [ok |-> TRUE]

\* what execute writes to the log of the captured output: error!("stderr: ..")
\* and error!("stdout: ..") when the exit status is not 0
LoggedOutput(output) ==
    IF output.status # 0 THEN <<output.stderr, output.stdout>> ELSE <<>>

\* do_frr_reload with the result of the --test phase dropped
AfterExecuteIgnoringTest(test, res) ==
    IF test THEN "apply_spawn" ELSE "send"

\* do_frr_reload's error leaving the session loop
AfterExecuteClosing(test, res) ==
    IF ~res.ok THEN "accept"
    ELSE IF test THEN "apply_spawn"
    ELSE "send"

\* do_frr_reload after execute(.., test) returned res: the ? operator leaves
\* with the error, the --test phase is followed by --reload, the --reload
\* phase by Ok(())
AfterExecute(test, res) ==
    IF ~res.ok THEN "send"
    ELSE IF test THEN "apply_spawn"
    ELSE "send"

\* do_frr_reload going on after a failed write_config_file
AfterStageAlways(res) == "test_spawn"

\* do_frr_reload after write_config_file returned res
AfterStage(res) == IF res.ok THEN "test_spawn" ELSE "send"

\* execute returning without having waited for the subprocess
ReapedNever(flight, inv) == flight

\* the invocations in flight once wait_with_output has returned for inv
Reaped(flight, inv) == flight \ {inv}

(***************************************************************************)
(* The session loop's pure parts (main.rs).                                *)
(***************************************************************************)
\* main without the always_ok branch
DispatchBranchNoAlwaysOk(request, always_ok) ==
    IF request = KeepaliveStr THEN "keepalive" ELSE "reload"

\* main without the keepalive branch
DispatchBranchNoKeepalive(request, always_ok) ==
    IF always_ok THEN "always_ok" ELSE "reload"

\* the branch main takes for a decoded request
DispatchBranch(request, always_ok) ==
    IF request = KeepaliveStr THEN "keepalive"
    ELSE IF always_ok THEN "always_ok"
    ELSE "reload"

\* main reading the next frame without answering a keepalive
AfterDispatchNoReply(branch) ==
    IF branch = "keepalive" THEN "recv"
    ELSE IF branch = "always_ok" THEN "send"
    ELSE "stage"

\* where main goes with the response of a branch: frr_reload is called on
\* the reload branch, the other two have their response
AfterDispatch(branch) ==
    IF branch \in {"keepalive", "always_ok"} THEN "send" ELSE "stage"

\* main answering with a fixed genid
ResponseGenidZero(req) == 0

\* the genid main passes to send_response for the request req
ResponseGenid(req) == req.genid

\* where the session loop goes once send_response returned
AfterSend(sent) == IF sent THEN "recv" ELSE "accept"

\* where the session loop goes once receive_request returned Err
AfterDecodeError == "accept"


(***************************************************************************)
(* The state.                                                              *)
(***************************************************************************)
VARIABLES
    platform,   \* the build's pointer width and byte order
    args,       \* Args: loglevel_ok, always_ok, proc_time
    pc,         \* where the main thread is
    ended,      \* "no", or how the process ended: "exit", "panic", "abort", "signal"
    exit_code,  \* the exit status (ended = "exit", "panic") or the ending signal
    sock_file,  \* whether an artifact exists at the bind path
    listening,  \* whether the listener is bound
    sig,        \* the signal-handling thread and the signal delivered
    conns,      \* the connections the clients have opened, in order
    chunks,     \* the number of chunks the clients have written
    stream,     \* the connection the session loop serves (0: none)
    nreq,       \* the number of requests decoded
    req,        \* the request being handled, and what was done for it
    conf_file,  \* do_frr_reload's config_file
    response,   \* the response string to send
    files,      \* the staged files below outdir: path -> content
    in_flight,  \* the subprocess invocations started and not yet waited for
    spawned_by  \* the requests a subprocess was started for

vars == <<platform, args, pc, ended, exit_code, sock_file, listening, sig,
          conns, chunks, stream, nreq, req, conf_file, response, files,
          in_flight, spawned_by>>

NoReq == [rid |-> 0]
NoBytes == <<>>
\* Args::proc_time: Option<u64>, None or Some(seconds)
NoProcTime == <<>>
SomeProcTime(secs) == <<secs>>

\* the configuration texts the clients send: "r1" and "!"
ConfigA == <<114, 49>>
ConfigB == <<33>>
\* a byte sequence that is not UTF-8
NotUtf8 == <<255>>

\* a header announcing 2^63 payload bytes
HugeHeader63(plat) ==
    NeOrder(plat, <<0, 0, 0, 0, 0, 0, 0, 128>>) \o ToNeBytes(plat, 3)
\* a header announcing 2^31 payload bytes
HugeHeader31(plat) ==
    NeOrder(plat, <<0, 0, 0, 128, 0, 0, 0, 0>>) \o ToNeBytes(plat, 3)

\* what a client writes in one go: a whole frame as a client of the same
\* build encodes it, or (partial) the start of a frame whose rest never comes
ClientChunks(plat) ==
    LET Whole(f) == [bytes |-> f, partial |-> FALSE]
        Part(f, n) == [bytes |-> SubSeq(f, 1, n), partial |-> TRUE]
    IN  { Whole(WireMsg(plat, 7, KeepaliveStr)),
          Whole(WireMsg(plat, 3, ConfigA)),
          Whole(WireMsg(plat, 3, ConfigB)),
          Whole(WireMsg(plat, -1, ConfigB)),
          Whole(WireMsg(plat, 3, NotUtf8)),
          Part(WireMsg(plat, 7, KeepaliveStr), 12),
          Part(WireMsg(plat, 3, ConfigA), 17),
          Part(HugeHeader63(plat), 16),
          Part(HugeHeader31(plat), 16) }

Init ==
    /\ platform \in Platforms
    /\ args \in [loglevel_ok : BOOLEAN, always_ok : BOOLEAN,
                 proc_time : {NoProcTime, SomeProcTime(1)}]
    /\ pc = "args"
    /\ ended = "no"
    /\ exit_code = -1
    /\ sock_file \in BOOLEAN
    /\ listening = FALSE
    /\ sig = [installed |-> FALSE, delivered |-> FALSE, pending |-> 0,
              pc |-> "none"]
    /\ conns = <<>>
    /\ chunks = 0
    /\ stream = 0
    /\ nreq = 0
    /\ req = NoReq
    /\ conf_file = NoBytes
    /\ response = NoBytes
    /\ files = <<>>
    /\ in_flight = {}
    /\ spawned_by = {}

Running == ended = "no"

\* the main thread is in create_unix_listener or before it
StartupPcs ==
    {"args", "signals", "rm_stale", "mkdirs", "bind", "blocking", "perms"}

\* the process ends: its memory, its connections and its listener are gone;
\* the artifact at the bind path and the staged files stay
EndProcess(how, code) ==
    /\ ended' = how
    /\ exit_code' = code
    /\ listening' = FALSE
    /\ conns' = <<>>
    /\ chunks' = 0
    /\ stream' = 0
    /\ nreq' = 0
    /\ req' = NoReq
    /\ conf_file' = NoBytes
    /\ response' = NoBytes
    /\ in_flight' = {}
    /\ spawned_by' = {}
    /\ UNCHANGED <<platform, args, pc, sock_file, files>>

\* std::process::exit(code)
Exit(code) == EndProcess("exit", code) /\ UNCHANGED sig

(***************************************************************************)
(* main: startup.                                                          *)
(***************************************************************************)
\* let Ok(loglevel) = args.loglevel() else { exit(1) }
CheckLoglevel ==
    /\ Running /\ pc = "args"
    /\ IF args.loglevel_ok
       THEN /\ pc' = "signals"
            /\ UNCHANGED <<platform, args, ended, exit_code, sock_file,
                           listening, sig, conns, chunks, stream, nreq, req,
                           conf_file, response, files, in_flight, spawned_by>>
       ELSE Exit(ExitFailure)

\* if let Ok(mut signals) = Signals::new([SIGINT, SIGQUIT, SIGTERM])
\*     { thread::spawn(..) }
InstallSignals ==
    /\ Running /\ pc = "signals"
    /\ \E ok \in BOOLEAN :
          sig' = IF ok THEN [sig EXCEPT !.installed = TRUE, !.pc = "waiting"]
                 ELSE sig
    /\ pc' = "rm_stale"
    /\ UNCHANGED <<platform, args, ended, exit_code, sock_file, listening,
                   conns, chunks, stream, nreq, req, conf_file, response,
                   files, in_flight, spawned_by>>

\* create_unix_listener: let _ = std::fs::remove_file(bind_addr)
RemoveStale ==
    /\ Running /\ pc = "rm_stale"
    /\ \E ok \in BOOLEAN : sock_file' = (sock_file /\ ~ok)
    /\ pc' = "mkdirs"
    /\ UNCHANGED <<platform, args, ended, exit_code, listening, sig, conns,
                   chunks, stream, nreq, req, conf_file, response, files,
                   in_flight, spawned_by>>

\* create_unix_listener: fs::create_dir_all(parent_dir)?
CreateSockDirs ==
    /\ Running /\ pc = "mkdirs"
    /\ \E ok \in BOOLEAN :
          IF ok
          THEN /\ pc' = "bind"
               /\ UNCHANGED <<platform, args, ended, exit_code, sock_file,
                              listening, sig, conns, chunks, stream, nreq,
                              req, conf_file, response, files, in_flight, spawned_by>>
          ELSE Exit(ExitFailure)

\* create_unix_listener going on after a failed bind
BindIgnoringFailure ==
    /\ Running /\ pc = "bind"
    /\ \E ok \in BOOLEAN :
          /\ pc' = "blocking"
          /\ listening' = (ok /\ ~sock_file)
          /\ sock_file' = TRUE
          /\ UNCHANGED <<platform, args, ended, exit_code, sig, conns,
                         chunks, stream, nreq, req, conf_file, response,
                         files, in_flight, spawned_by>>

\* create_unix_listener: UnixListener::bind(bind_addr)?; it fails when the
\* path exists
Bind ==
    /\ Running /\ pc = "bind"
    /\ \E ok \in BOOLEAN :
          IF ok /\ ~sock_file
          THEN /\ pc' = "blocking"
               /\ sock_file' = TRUE
               /\ listening' = TRUE
               /\ UNCHANGED <<platform, args, ended, exit_code, sig, conns,
                              chunks, stream, nreq, req, conf_file, response,
                              files, in_flight, spawned_by>>
          ELSE Exit(ExitFailure)

\* create_unix_listener: listener.set_nonblocking(false)?
SetBlocking ==
    /\ Running /\ pc = "blocking"
    /\ \E ok \in BOOLEAN :
          IF ok
          THEN /\ pc' = "perms"
               /\ UNCHANGED <<platform, args, ended, exit_code, sock_file,
                              listening, sig, conns, chunks, stream, nreq,
                              req, conf_file, response, files, in_flight, spawned_by>>
          ELSE Exit(ExitFailure)

\* create_unix_listener: fs::metadata(bind_addr)?, fs::set_permissions(..)?;
\* both fail when the path is gone
GrantPermissions ==
    /\ Running /\ pc = "perms"
    /\ \E ok \in BOOLEAN :
          IF ok /\ sock_file
          THEN /\ pc' = "accept"
               /\ UNCHANGED <<platform, args, ended, exit_code, sock_file,
                              listening, sig, conns, chunks, stream, nreq,
                              req, conf_file, response, files, in_flight, spawned_by>>
          ELSE Exit(ExitFailure)

(***************************************************************************)
(* The signal-handling thread, and the delivery of a signal.               *)
(***************************************************************************)
TermSignals == {SIGINT, SIGQUIT, SIGTERM}

\* a termination signal reaches the process: signal-hook's handler notes
\* it for the thread, and without the handler the signal's default action
\* ends the process
DeliverSignal ==
    /\ Running /\ ~sig.delivered
    /\ \E s \in TermSignals :
          IF sig.installed
          THEN /\ sig' = [sig EXCEPT !.delivered = TRUE, !.pending = s]
               /\ UNCHANGED <<platform, args, pc, ended, exit_code,
                              sock_file, listening, conns, chunks, stream,
                              nreq, req, conf_file, response, files,
                              in_flight, spawned_by>>
          ELSE /\ sig' = [sig EXCEPT !.delivered = TRUE]
               /\ EndProcess("signal", s)

\* if let Some(sig) = signals.forever().next() { match sig {
\*     SIGINT | SIGTERM | SIGQUIT => { remove_file(bind_addr.clone()) ..
\*     _ => { warn!(..) } } }
SigHandle ==
    /\ Running /\ sig.pc = "waiting" /\ sig.pending # 0
    /\ IF sig.pending \in {SIGINT, SIGTERM, SIGQUIT}
       THEN /\ \E ok \in BOOLEAN : sock_file' = (sock_file /\ ~ok)
            /\ sig' = [sig EXCEPT !.pc = "exiting", !.pending = 0]
       ELSE /\ sig' = [sig EXCEPT !.pc = "done", !.pending = 0]
            /\ UNCHANGED sock_file
    /\ UNCHANGED <<platform, args, pc, ended, exit_code, listening, conns,
                   chunks, stream, nreq, req, conf_file, response, files,
                   in_flight, spawned_by>>

\* std::process::exit(0)
SigExit ==
    /\ Running /\ sig.pc = "exiting"
    /\ Exit(ExitSignalled)

(***************************************************************************)
(* The clients.                                                            *)
(***************************************************************************)
\* a connection nothing has happened on; ndecoded and nsent count the
\* requests decoded from it and the responses written to it, last_tx is the
\* last wire message written to it
NoConn == [state |-> "none", rx |-> NoBytes, eof |-> FALSE,
           partial |-> FALSE, ndecoded |-> 0, nsent |-> 0,
           last_tx |-> NoBytes]

\* a client connects to the bound socket
Connect ==
    /\ Running /\ listening /\ Len(conns) < MaxConns
    /\ conns' = Append(conns, [NoConn EXCEPT !.state = "pending"])
    /\ UNCHANGED <<platform, args, pc, ended, exit_code, sock_file, listening,
                   sig, chunks, stream, nreq, req, conf_file, response, files,
                   in_flight, spawned_by>>

\* a client writes a chunk
ClientSend ==
    /\ Running /\ chunks < MaxChunks
    /\ \E c \in DOMAIN conns, ch \in ClientChunks(platform) :
          /\ conns[c].state \in {"pending", "accepted"}
          /\ ~conns[c].eof /\ ~conns[c].partial
          /\ conns' = [conns EXCEPT ![c].rx = @ \o ch.bytes,
                                    ![c].partial = ch.partial]
    /\ chunks' = chunks + 1
    /\ UNCHANGED <<platform, args, pc, ended, exit_code, sock_file, listening,
                   sig, stream, nreq, req, conf_file, response, files,
                   in_flight, spawned_by>>

\* a client closes its connection
ClientClose ==
    /\ Running
    /\ \E c \in DOMAIN conns :
          /\ conns[c].state \in {"pending", "accepted"}
          /\ ~conns[c].eof
          /\ conns' = [conns EXCEPT ![c].eof = TRUE]
    /\ UNCHANGED <<platform, args, pc, ended, exit_code, sock_file, listening,
                   sig, chunks, stream, nreq, req, conf_file, response, files,
                   in_flight, spawned_by>>

(***************************************************************************)
(* main: the accept loop and the session loop.                             *)
(***************************************************************************)
\* the connections waiting to be accepted
Pending == {c \in DOMAIN conns : conns[c].state = "pending"}

\* stream.shutdown(Shutdown::Both)
ShutDown(cs, c) == [cs EXCEPT ![c] = [NoConn EXCEPT !.state = "shutdown"]]

\* if let Ok((mut stream, peer)) = listener.accept()
Accept ==
    /\ Running /\ pc = "accept" /\ Pending # {}
    /\ LET c == CHOOSE x \in Pending : \A y \in Pending : x <= y IN
          /\ conns' = [conns EXCEPT ![c].state = "accepted"]
          /\ stream' = c
    /\ pc' = "recv"
    /\ UNCHANGED <<platform, args, ended, exit_code, sock_file, listening,
                   sig, chunks, nreq, req, conf_file, response, files,
                   in_flight, spawned_by>>

\* listener.accept() is Err: the loop calls it again
AcceptError ==
    /\ Running /\ pc = "accept"
    /\ UNCHANGED vars

\* receive_request(&mut stream) returns
ReceiveRequest ==
    /\ Running /\ pc = "recv"
    /\ LET r == ReceiveResult(platform, conns[stream].rx, conns[stream].eof)
       IN  \/ /\ r.kind = "ok"
              /\ req' = [rid |-> nreq + 1, genid |-> r.genid,
                         genid_buf |-> r.genid_buf,
                         request |-> r.request, slept |-> FALSE,
                         staged |-> "no", test |-> "no", apply |-> "no",
                         files0 |-> files, seen |-> <<>>, logged |-> <<>>]
              /\ nreq' = nreq + 1
              /\ conns' = [conns EXCEPT ![stream].rx = r.rest,
                                        ![stream].ndecoded = @ + 1]
              /\ pc' = "proc_time"
              /\ UNCHANGED stream
           \/ /\ \/ r.kind = "err"
                 \/ r.kind = "big" /\ r.eof
              /\ conns' = ShutDown(conns, stream)
              /\ pc' = AfterDecodeError
              /\ stream' = 0
              /\ UNCHANGED <<req, nreq>>
    /\ UNCHANGED <<platform, args, ended, exit_code, sock_file, listening,
                   sig, chunks, conf_file, response, files, in_flight, spawned_by>>

\* receive_request: vec![0u8; msg_size] panics with a capacity overflow, and
\* the main thread's panic ends the process
ReceivePanic ==
    /\ Running /\ pc = "recv"
    /\ ReceiveResult(platform, conns[stream].rx, conns[stream].eof).kind
          = "overflow"
    /\ EndProcess("panic", ExitPanic)
    /\ UNCHANGED sig

\* receive_request: vec![0u8; msg_size] cannot allocate 2^31 bytes or more,
\* and the allocation error aborts the process
ReceiveAbort ==
    /\ Running /\ pc = "recv"
    /\ ReceiveResult(platform, conns[stream].rx, conns[stream].eof).kind
          = "big"
    /\ EndProcess("abort", SIGABRT)
    /\ UNCHANGED sig

\* args.proc_time() returning without the sleep
ProcTimeNoSleep ==
    /\ Running /\ pc = "proc_time"
    /\ pc' = "dispatch"
    /\ UNCHANGED <<platform, args, ended, exit_code, sock_file, listening,
                   sig, conns, chunks, stream, nreq, req, conf_file, response,
                   files, in_flight, spawned_by>>

\* args.proc_time()
ProcTime ==
    /\ Running /\ pc = "proc_time"
    /\ req' = [req EXCEPT !.slept = (args.proc_time # NoProcTime)]
    /\ pc' = "dispatch"
    /\ UNCHANGED <<platform, args, ended, exit_code, sock_file, listening,
                   sig, conns, chunks, stream, nreq, conf_file, response,
                   files, in_flight, spawned_by>>

\* let response = if &request == "KEEPALIVE" { "Ok" }
\*     else if args.always_ok { "Ok" } else { frr_reload(..) }
Dispatch ==
    /\ Running /\ pc = "dispatch"
    /\ LET branch == DispatchBranch(req.request, args.always_ok) IN
          /\ response' = IF branch \in {"keepalive", "always_ok"}
                         THEN OkStr ELSE NoBytes
          /\ pc' = AfterDispatch(branch)
    /\ UNCHANGED <<platform, args, ended, exit_code, sock_file, listening,
                   sig, conns, chunks, stream, nreq, req, conf_file, files,
                   in_flight, spawned_by>>

\* do_frr_reload: let config_file = write_config_file(genid, config, outdir)?
WriteConfigFile ==
    /\ Running /\ pc = "stage"
    /\ \E fail \in StageSteps \cup {"none"}, e \in OsErrors,
          written \in 0..Len(req.request) :
          LET res == StageResult(req.genid, fail, e) IN
          /\ fail = "write" <=> written < Len(req.request)
          /\ files' = StagedFiles(files, req.genid, req.request, fail, written)
          /\ conf_file' = IF res.ok THEN res.conf_file ELSE NoBytes
          /\ response' = IF res.ok THEN NoBytes ELSE FrrReloadString(res)
          /\ pc' = AfterStage(res)
          /\ req' = [req EXCEPT !.staged = IF fail = "none" THEN "ok" ELSE fail]
    /\ UNCHANGED <<platform, args, ended, exit_code, sock_file, listening,
                   sig, conns, chunks, stream, nreq, in_flight, spawned_by>>

\* the phase execute is called for at pc
TestPhase == pc \in {"test_spawn", "test_wait"}

\* req with the outcome of the phase at pc noted
Noted(r, outcome) ==
    IF TestPhase THEN [r EXCEPT !.test = outcome]
    ELSE [r EXCEPT !.apply = outcome]

\* execute: cmd.spawn()
Spawn ==
    /\ Running /\ pc \in {"test_spawn", "apply_spawn"}
    /\ \E ok \in BOOLEAN, e \in OsErrors :
          LET res == [ok |-> FALSE,
                      err |-> [variant |-> "CmdSpawnFailed",
                               detail |-> ErrDisplay(e)]]
              inv == [rid |-> req.rid, test |-> TestPhase]
              cmd == [argv |-> <<PhaseFlag(TestPhase)>> \o ReloadArgs,
                      conf_file |-> conf_file,
                      content |-> files[conf_file]]
          IN
          IF ok
          THEN /\ in_flight' = in_flight \cup {inv}
               /\ spawned_by' = spawned_by \cup {req.rid}
               /\ pc' = IF TestPhase THEN "test_wait" ELSE "apply_wait"
               /\ req' = [Noted(req, "running") EXCEPT
                             !.seen = Append(@, cmd)]
               /\ UNCHANGED response
          ELSE /\ response' = FrrReloadString(res)
               /\ pc' = AfterExecute(TestPhase, res)
               /\ req' = Noted(req, "spawn_failed")
               /\ UNCHANGED <<in_flight, spawned_by>>
    /\ UNCHANGED <<platform, args, ended, exit_code, sock_file, listening,
                   sig, conns, chunks, stream, nreq, conf_file, files>>

\* execute: .wait_with_output() returns, and the exit status is examined
Wait ==
    /\ Running /\ pc \in {"test_wait", "apply_wait"}
    /\ \E waited \in BOOLEAN, e \in OsErrors, output \in ToolOutputs :
          LET res == IF waited THEN ExecuteResult(output)
                     ELSE [ok |-> FALSE,
                           err |-> [variant |-> "CmdWaitFailed",
                                    detail |-> ErrDisplay(e)]]
              next == AfterExecute(TestPhase, res)
              status == output.status
          IN
          /\ ~waited => (status = 0 /\ output.stdout = <<>>)
          /\ req' = [Noted(req, IF ~waited THEN "wait_failed"
                                ELSE IF status = 0 THEN "exit0" ELSE "exit1")
                        EXCEPT !.logged = IF waited THEN LoggedOutput(output)
                                          ELSE @]
          /\ in_flight' = Reaped(in_flight,
                                 [rid |-> req.rid, test |-> TestPhase])
          /\ pc' = next
          /\ response' = IF next = "send" THEN FrrReloadString(res)
                         ELSE response
    /\ UNCHANGED <<platform, args, ended, exit_code, sock_file, listening,
                   sig, conns, chunks, stream, nreq, conf_file, files,
                   spawned_by>>

\* send_response(&mut stream, genid, response.as_bytes()); write_all can
\* fail once the peer has closed
SendResponse ==
    /\ Running /\ pc = "send"
    /\ \E sent \in BOOLEAN :
          /\ ~sent => conns[stream].eof
          /\ pc' = AfterSend(sent)
          /\ IF sent
             THEN /\ conns' = [conns EXCEPT
                                  ![stream].last_tx =
                                      WireMsg(platform, ResponseGenid(req),
                                              response),
                                  ![stream].nsent = @ + 1]
                  /\ UNCHANGED stream
             ELSE /\ conns' = ShutDown(conns, stream)
                  /\ stream' = 0
    /\ req' = NoReq
    /\ conf_file' = NoBytes
    /\ response' = NoBytes
    /\ UNCHANGED <<platform, args, ended, exit_code, sock_file, listening,
                   sig, chunks, nreq, files, in_flight, spawned_by>>

Next ==
    \/ CheckLoglevel \/ InstallSignals \/ RemoveStale \/ CreateSockDirs
    \/ Bind \/ SetBlocking \/ GrantPermissions
    \/ DeliverSignal \/ SigHandle \/ SigExit
    \/ Connect \/ ClientSend \/ ClientClose
    \/ Accept \/ AcceptError \/ ReceiveRequest \/ ReceivePanic \/ ReceiveAbort
    \/ ProcTime \/ Dispatch \/ WriteConfigFile \/ Spawn \/ Wait
    \/ SendResponse

Spec == Init /\ [][Next]_vars

(***************************************************************************)
(* The codec on its own: send_response writes a frame into one end of a    *)
(* connection and receive_request reads it from the other, for generation  *)
(* ids and payloads drawn from bounded sets.                               *)
(***************************************************************************)
\* the bytes payloads are made of: NUL, "A", the two bytes of U+00E9, and a
\* byte no UTF-8 text holds
PayloadBytes == {0, 65, 195, 169, 255}

\* the byte sequences of up to MaxPayload bytes
Payloads == UNION {[1..n -> PayloadBytes] : n \in 0..MaxPayload}

\* the generation ids of the round trip
GenIds == {-2147483647, -1, 0, 3, 2147483647}

\* genid and msg are send_response's arguments, decoded is what
\* receive_request returned
CodecInit ==
    /\ platform \in Platforms
    /\ args = [loglevel_ok |-> TRUE, always_ok |-> FALSE,
               proc_time |-> NoProcTime]
    /\ pc = "encode"
    /\ ended = "no"
    /\ exit_code = -1
    /\ sock_file = TRUE
    /\ listening = TRUE
    /\ sig = [installed |-> FALSE, delivered |-> FALSE, pending |-> 0,
              pc |-> "none"]
    /\ conns = <<[NoConn EXCEPT !.state = "accepted"]>>
    /\ chunks = 0
    /\ stream = 1
    /\ nreq = 0
    /\ \E g \in GenIds, p \in Payloads :
          req = [rid |-> 0, genid |-> g, msg |-> p,
                 decoded |-> [kind |-> "none"]]
    /\ conf_file = NoBytes
    /\ response = NoBytes
    /\ files = <<>>
    /\ in_flight = {}
    /\ spawned_by = {}

\* send_response(sock, genid, msg): sock.write_all(&wire_msg)
CodecSendResponse ==
    /\ pc = "encode"
    /\ conns' = [conns EXCEPT
                    ![stream].rx = @ \o WireMsg(platform, req.genid, req.msg)]
    /\ pc' = "decode"
    /\ UNCHANGED <<platform, args, ended, exit_code, sock_file, listening,
                   sig, chunks, stream, nreq, req, conf_file, response, files,
                   in_flight, spawned_by>>

\* receive_request(sock) on the other end
CodecReceiveRequest ==
    /\ pc = "decode"
    /\ LET r == ReceiveResult(platform, conns[stream].rx, conns[stream].eof)
       IN  /\ r.kind \in {"ok", "err"}
           /\ req' = [req EXCEPT !.decoded = r]
           /\ conns' = [conns EXCEPT
                           ![stream].rx = IF r.kind = "ok" THEN r.rest ELSE @]
    /\ pc' = "decoded"
    /\ UNCHANGED <<platform, args, ended, exit_code, sock_file, listening,
                   sig, chunks, stream, nreq, conf_file, response, files,
                   in_flight, spawned_by>>

CodecNext == CodecSendResponse \/ CodecReceiveRequest

CodecSpec == CodecInit /\ [][CodecNext]_vars

(***************************************************************************)
(* What the clients see on the wire, and what has been done for a request. *)
(***************************************************************************)
\* the generation id field and the payload of a wire message
WireGenidBuf(w) == SubSeq(w, FieldBytes + 1, HeaderBytes)
WirePayload(w) == SubSeq(w, HeaderBytes + 1, Len(w))

\* the main thread is handling a decoded request
HandlingPcs ==
    {"proc_time", "dispatch", "stage", "test_spawn", "test_wait",
     "apply_spawn", "apply_wait", "send"}

\* the outcomes of a subprocess phase other than exit status 0
PhaseFailures == {"spawn_failed", "wait_failed", "exit1"}

\* the reload of request r has failed
ReloadFailed(r) ==
    /\ r.rid # 0
    /\ \/ r.staged \in StageSteps
       \/ r.test \in PhaseFailures
       \/ r.apply \in PhaseFailures

\* the status strings of the failures
FailureStrings ==
    {WriteFailedPrefix \o StageDetail(step, e) : step \in StageSteps, e \in OsErrors}
    \cup {SpawnFailedPrefix \o ErrDisplay(e) : e \in OsErrors}
    \cup {WaitFailedPrefix \o ErrDisplay(e) : e \in OsErrors}
    \cup {ReloadErrStr}

(***************************************************************************)
(* The claims.                                                             *)
(***************************************************************************)

\* C1: on every connection the responses sent never exceed the requests
\* decoded and lag them by at most one; the one unanswered request is the
\* one the session loop is handling on that connection; and the session
\* loop is about to read a frame from a connection only when every request
\* decoded from it has been answered.
C1_OneResponsePerRequest ==
    \A c \in DOMAIN conns :
        LET d == conns[c].ndecoded
            s == conns[c].nsent
        IN  /\ s <= d
            /\ d <= s + 1
            /\ d = s + 1 => (stream = c /\ req.rid # 0 /\ pc \in HandlingPcs)
            /\ (stream = c /\ pc = "recv") => d = s

\* C1's case: two requests were decoded from one connection and both were
\* answered on it.
C1_Witness ==
    \E c \in DOMAIN conns : conns[c].ndecoded = 2 /\ conns[c].nsent = 2

\* C2: while a request is handled, the --reload phase is reached or started
\* only if the --test phase of that request has returned exit status 0, and
\* the two invocations of a request are never in flight together.
C2_ApplyOnlyAfterValidated ==
    req.rid # 0 =>
        /\ (req.apply # "no" \/ pc \in {"apply_spawn", "apply_wait"})
              => req.test = "exit0"
        /\ req.test = "running" => req.apply = "no"
        /\ ~({[rid |-> req.rid, test |-> TRUE],
              [rid |-> req.rid, test |-> FALSE]} \subseteq in_flight)

\* C2's case: the --reload subprocess runs after the --test subprocess of
\* the same request has exited with status 0.
C2_Witness ==
    /\ req.rid # 0
    /\ req.test = "exit0"
    /\ req.apply = "running"
    /\ in_flight = {[rid |-> req.rid, test |-> FALSE]}

\* C3: at most one subprocess invocation is in flight in the process; it
\* belongs to the request decoded last, which is the one being handled; and
\* staging or a subprocess is started only when no invocation is in flight.
C3_AtMostOneReloadInFlight ==
    /\ Cardinality(in_flight) <= 1
    /\ req.rid # 0 => req.rid = nreq
    /\ \A inv \in in_flight :
          /\ inv.rid = req.rid
          /\ pc \in {"test_wait", "apply_wait"}
    /\ pc \in {"stage", "test_spawn", "apply_spawn"} => in_flight = {}
    /\ \A r \in spawned_by : r <= nreq

\* C3's case: the subprocess of a second reload request runs after a
\* subprocess was run for the first.
C3_Witness ==
    /\ 1 \in spawned_by
    /\ in_flight = {[rid |-> 2, test |-> TRUE]}

\* C4: when the response of a request that is neither a keepalive nor
\* answered in forced-success mode is written, its payload on the wire is
\* "Ok" exactly if staging succeeded and both subprocess phases were
\* spawned, waited for and exited with status 0; otherwise it is one of the
\* failure strings, none of which is "Ok".
C4_OkIffBothPhasesSucceeded ==
    [][(pc = "send" /\ pc' = "recv"
        /\ req.request # KeepaliveStr /\ ~args.always_ok)
       => LET payload == WirePayload(conns'[stream].last_tx)
              all_ok == /\ req.staged = "ok"
                        /\ req.test = "exit0"
                        /\ req.apply = "exit0"
          IN  /\ payload = OkStr <=> all_ok
              /\ ~all_ok => (payload \in FailureStrings /\ payload # OkStr)
      ]_vars

\* C4's case: "Ok" was sent for a reload whose two phases exited with 0.
C4_Witness ==
    /\ pc = "send"
    /\ req.rid # 0
    /\ ~args.always_ok
    /\ req.request = ConfigA
    /\ req.apply = "exit0"
    /\ response = OkStr

\* C5: once staging has failed for a request, the response is the staging
\* failure and the request goes to the send step; no subprocess was or is
\* started for it.
C5_StagingFailureStopsReload ==
    (req.rid # 0 /\ req.staged \in StageSteps) =>
        /\ pc = "send"
        /\ \E e \in OsErrors :
              response = WriteFailedPrefix \o StageDetail(req.staged, e)
        /\ req.test = "no"
        /\ req.apply = "no"
        /\ req.seen = <<>>
        /\ req.rid \notin spawned_by
        /\ in_flight = {}

\* C5's case: the write of the staged file failed.
C5_Witness ==
    /\ req.rid # 0
    /\ req.staged = "write"
    /\ pc = "send"

\* C6: while a KEEPALIVE request is handled the staged files are those of
\* the moment it was decoded, nothing is staged and no subprocess is started
\* for it, and the response it reaches the send step with is "Ok", whatever
\* the agent's mode.
C6_KeepaliveHasNoEffect ==
    (req.rid # 0 /\ req.request = KeepaliveStr) =>
        /\ pc \in {"proc_time", "dispatch", "send"}
        /\ files = req.files0
        /\ req.staged = "no"
        /\ req.test = "no"
        /\ req.apply = "no"
        /\ req.rid \notin spawned_by
        /\ in_flight = {}
        /\ pc = "send" => response = OkStr

\* C6's case: a keepalive is answered by an agent that is not in
\* forced-success mode and has staged a file before.
C6_Witness ==
    /\ req.rid # 0
    /\ req.request = KeepaliveStr
    /\ pc = "send"
    /\ ~args.always_ok
    /\ files # <<>>

\* the stream of the session holds a frame that cannot be decoded
Undecodable ==
    /\ pc = "recv" /\ Running
    /\ LET r == ReceiveResult(platform, conns[stream].rx, conns[stream].eof)
       IN  \/ r.kind = "err"
           \/ r.kind \in {"overflow", "big"} /\ conns[stream].eof

\* C7: when the frame on the session's stream cannot be decoded, the main
\* thread's next step shuts the connection down without a response and
\* returns to accept, the process still running.
C7_DecodeFailureClosesSession ==
    [][(Undecodable /\ (pc' # pc \/ ended' \in {"panic", "abort"}))
       => /\ ended' = "no"
          /\ pc' = "accept"
          /\ conns'[stream].state = "shutdown"
          /\ stream' = 0
      ]_vars

\* C8: a failure of the reload leaves the process running and the session
\* on its connection with the failure string as the response to send; and
\* when that response is written to a peer that has not closed, the session
\* loop is back at reading a frame from the same connection, the failure
\* string on the wire.
C8_ReloadFailureKeepsSession ==
    [][(pc' # pc /\ Running)
       => /\ (req.rid # 0 /\ ~ReloadFailed(req) /\ ReloadFailed(req'))
                => /\ ended' = "no"
                   /\ pc' = "send"
                   /\ stream' = stream
                   /\ conns'[stream].state = "accepted"
                   /\ response' \in FailureStrings
          /\ (pc = "send" /\ ReloadFailed(req) /\ ~conns[stream].eof)
                => /\ ended' = "no"
                   /\ pc' = "recv"
                   /\ stream' = stream
                   /\ conns'[stream].state = "accepted"
                   /\ conns'[stream].nsent = conns[stream].nsent + 1
                   /\ WirePayload(conns'[stream].last_tx) = response
                   /\ response \in FailureStrings
      ]_vars

\* C8's case: the session is back at reading a frame after "Reloading
\* error" was sent on its connection.
C8_Witness ==
    /\ pc = "recv"
    /\ stream # 0
    /\ conns[stream].state = "accepted"
    /\ WirePayload(conns[stream].last_tx) = ReloadErrStr

\* C9: the wire message written for a request carries the generation id
\* bytes the request came with, which decode to the request's genid.
C9_ResponseEchoesGenid ==
    [][(pc = "send" /\ pc' = "recv")
       => LET buf == WireGenidBuf(conns'[stream].last_tx) IN
          /\ buf = req.genid_buf
          /\ I64FromNeBytes(platform, buf) = req.genid
      ]_vars

\* C9's case: a failure response went out with the negative generation id
\* of its request.
C9_Witness ==
    \E c \in DOMAIN conns :
        /\ conns[c].last_tx # NoBytes
        /\ WireGenidBuf(conns[c].last_tx) = ToNeBytes(platform, -1)
        /\ WirePayload(conns[c].last_tx) \in FailureStrings

\* C10 (the part of it a finite run decides): a process that has ended
\* after a termination signal was delivered to its installed handler, the
\* main thread past startup, has exited with status 0.
C10_SignalledExitIsZero ==
    (ended # "no" /\ sig.installed /\ sig.delivered /\ pc \notin StartupPcs)
       => (ended = "exit" /\ exit_code = ExitSignalled)

\* C11: in forced-success mode nothing is ever staged and no subprocess is
\* ever started; a request being handled is on its way to the send step with
\* the response "Ok"; and the wire message written for it carries the payload
\* "Ok" and the generation id bytes of the request, whatever its payload.
C11_AlwaysOkBypassesReload ==
    [][args.always_ok
       => /\ files' = <<>> /\ spawned_by' = {} /\ in_flight' = {}
          /\ req'.rid # 0
                => /\ pc' \in {"proc_time", "dispatch", "send"}
                   /\ req'.staged = "no" /\ req'.seen = <<>>
                   /\ pc' = "send" => response' = OkStr
          /\ (pc = "send" /\ pc' = "recv")
                => conns'[stream].last_tx
                      = ToNeBytes(platform, Len(OkStr)) \o req.genid_buf \o OkStr
      ]_vars

\* C11's case: in forced-success mode "Ok" went out for a request that is
\* not a keepalive, with its negative generation id.
C11_Witness ==
    /\ args.always_ok
    /\ \E c \in DOMAIN conns :
          conns[c].last_tx = WireMsg(platform, -1, OkStr)

\* C12 as stated: for every generation id and every payload byte sequence,
\* receive_request on the frame send_response wrote returns Ok with that
\* generation id and those payload bytes, and leaves nothing unread.
C12_RoundTripAnyBytes ==
    pc = "decoded" =>
        /\ req.decoded.kind = "ok"
        /\ req.decoded.genid = req.genid
        /\ req.decoded.request = req.msg
        /\ req.decoded.rest = NoBytes

\* C12, amended: the round trip holds for every generation id and every
\* payload that is valid UTF-8; for any other payload receive_request
\* returns Err at the conversion to a String.
C12_RoundTripUtf8 ==
    pc = "decoded" =>
        IF IsUtf8(req.msg)
        THEN /\ req.decoded.kind = "ok"
             /\ req.decoded.genid = req.genid
             /\ req.decoded.genid_buf = ToNeBytes(platform, req.genid)
             /\ req.decoded.request = req.msg
             /\ req.decoded.rest = NoBytes
        ELSE /\ req.decoded.kind = "err"
             /\ req.decoded.step = "utf8"

\* C12's case: a two-byte character and a negative generation id went
\* through the codec of the big-endian build.
C12_Witness ==
    /\ pc = "decoded"
    /\ platform.big_endian
    /\ req.genid = -1
    /\ req.msg = <<65, 195, 169>>
    /\ req.decoded.kind = "ok"
    /\ req.decoded.request = <<65, 195, 169>>

\* C13: the staged files change only in the staging step; that step leaves
\* the files of the other generation ids as they were, whether it succeeds
\* or fails; and when it succeeds the file of the request's generation id,
\* frr-config-gen-<genid>.conf, holds exactly the request's payload, whatever
\* it held before.
C13_StagingOverwrites ==
    [][/\ pc # "stage" => files' = files
       /\ pc = "stage" =>
             LET path == ConfFile(req.genid) IN
             /\ \A f \in DOMAIN files \ {path} :
                   f \in DOMAIN files' /\ files'[f] = files[f]
             /\ DOMAIN files' \subseteq DOMAIN files \cup {path}
             /\ (req'.rid # 0 /\ req'.staged = "ok") =>
                   /\ conf_file' = path
                   /\ path \in DOMAIN files'
                   /\ files'[path] = req.request
      ]_vars

\* C13's case: generation id 3 was staged with a two-byte payload and then
\* again with a one-byte payload, the file of generation id -1 lying next
\* to it or not.
C13_Witness ==
    /\ pc = "test_spawn"
    /\ req.rid # 0
    /\ req.genid = 3
    /\ req.request = ConfigB
    /\ ConfFile(3) \in DOMAIN req.files0
    /\ req.files0[ConfFile(3)] = ConfigA
    /\ files[ConfFile(3)] = ConfigB

\* the failure variants of a reload
FailureVariants ==
    {"StagingFailed", "ValidationFailed", "ApplyFailed",
     "ProcessSpawnFailed", "ProcessWaitFailed"}

\* the status strings frr_reload returns for a failure variant: a non-zero
\* exit status becomes FrrErr::ReloadErr in execute, whichever the phase
StatusStrings(variant) ==
    CASE variant = "StagingFailed" ->
            {FrrReloadString(StageResult(0, step, e)) :
                step \in StageSteps, e \in OsErrors}
      [] variant \in {"ValidationFailed", "ApplyFailed"} ->
            {FrrReloadString(ExecuteResult(output)) :
                output \in {o \in ToolOutputs : o.status # 0}}
      [] variant = "ProcessSpawnFailed" ->
            {SpawnFailedPrefix \o ErrDisplay(e) : e \in OsErrors}
      [] variant = "ProcessWaitFailed" ->
            {WaitFailedPrefix \o ErrDisplay(e) : e \in OsErrors}

\* C14: the response of a failed reload is the status string of exactly one
\* failure variant, so that the string tells the variant; in particular the
\* response to a failed validation is no status string of a failed apply,
\* and the other way round.
C14_StatusTellsStage ==
    (pc = "send" /\ ReloadFailed(req)) =>
        /\ Cardinality({v \in FailureVariants :
                           response \in StatusStrings(v)}) = 1
        /\ req.test = "exit1" => response \notin StatusStrings("ApplyFailed")
        /\ req.apply = "exit1"
              => response \notin StatusStrings("ValidationFailed")

\* C15: when wait_with_output returns an exit status, the step the reload
\* takes and the response it leaves with are those of every captured output
\* with that status, so two runs that differ in the captured output alone
\* go on alike; and the frame written for a request is made of the response
\* string and the request's generation id bytes alone.
C15_ResponseIgnoresToolOutput ==
    [][/\ (pc \in {"test_wait", "apply_wait"} /\ pc' # pc /\ req'.rid # 0)
             => LET outcome == IF TestPhase THEN req'.test ELSE req'.apply IN
                outcome \in {"exit0", "exit1"}
                   => \A o \in ToolOutputs :
                         (o.status = 0 <=> outcome = "exit0")
                            => /\ pc' = AfterExecute(TestPhase, ExecuteResult(o))
                               /\ pc' = "send"
                                     => response'
                                           = FrrReloadString(ExecuteResult(o))
       /\ (pc = "send" /\ pc' = "recv")
             => conns'[stream].last_tx
                   = ToNeBytes(platform, Len(response)) \o req.genid_buf
                        \o response
      ]_vars

\* C15's case: the tool failed in the --reload phase with text on stdout and
\* stderr, which went to the log, and the response is "Reloading error".
C15_Witness ==
    /\ pc = "send"
    /\ req.rid # 0
    /\ req.apply = "exit1"
    /\ req.logged = <<<<69>>, <<111>>>>
    /\ response = ReloadErrStr

\* C16: an exit of the process is either exit(1) of the main thread in
\* startup, at the log-level check or in the creation of the listener, or
\* exit(0) of the signal thread after a termination signal; the main thread
\* gets past the log-level check only with a valid log level and past bind
\* only with the listener bound; and as long as it is in startup no
\* connection is accepted, no frame read, nothing staged and no subprocess
\* started.
C16_StartupFailureExitsOne ==
    /\ ended = "exit" =>
          \/ /\ exit_code = ExitFailure
             /\ pc \in {"args", "mkdirs", "bind", "blocking", "perms"}
             /\ pc = "args" <=> ~args.loglevel_ok
          \/ /\ exit_code = ExitSignalled
             /\ sig.installed /\ sig.delivered /\ sig.pc = "exiting"
    /\ pc # "args" => args.loglevel_ok
    /\ (Running /\ pc \notin {"args", "signals", "rm_stale", "mkdirs", "bind"})
          => listening
    /\ pc \in StartupPcs =>
          /\ stream = 0 /\ nreq = 0 /\ req = NoReq
          /\ files = <<>> /\ in_flight = {} /\ spawned_by = {}
          /\ \A c \in DOMAIN conns :
                conns[c].state = "pending" /\ conns[c].ndecoded = 0

\* C16's case: the stale artifact could not be removed, bind failed on the
\* existing path and the process exited with status 1.
C16_Witness ==
    /\ ended = "exit"
    /\ exit_code = ExitFailure
    /\ pc = "bind"
    /\ sock_file

\* C17 (the part the rest of it stands on): once the signal thread has done
\* its removal of the artifact and until it exits, no step creates an
\* artifact at the bind path, so that the removal is the last change to the
\* path before the exit with status 0.
C17_NoArtifactAfterRemoval ==
    [][(Running /\ sig.pc = "exiting") => (sock_file' => sock_file)]_vars

\* C18: a process that has ended has ended through exit(1) of the main
\* thread in startup, or through a termination signal: exit(0) of the signal
\* thread, or the signal's default action where no handler is installed.
\* Nothing that happens in the accept loop or in the session loop ends it.
C18_OnlyStartupOrSignalEnds ==
    ended # "no" =>
        \/ ended = "exit" /\ exit_code = ExitFailure /\ pc \in StartupPcs
        \/ ended = "exit" /\ exit_code = ExitSignalled /\ sig.delivered
        \/ ended = "signal" /\ exit_code \in TermSignals /\ sig.delivered

\* C19: the subprocesses started for the request being handled are at most
\* two, --test first and --reload second, each with the arguments of
\* build_reload_args followed by the path frr-config-gen-<genid>.conf of the
\* request's generation id, and at the start of each the file at that path
\* held exactly the request's payload; the file still holds it while the
\* phases run.
C19_PhasesUseStagedFile ==
    req.rid # 0 =>
        /\ Len(req.seen) <= 2
        /\ \A i \in DOMAIN req.seen :
              /\ req.seen[i].argv = <<PhaseFlag(i = 1)>> \o ReloadArgs
              /\ req.seen[i].conf_file = ConfFile(req.genid)
              /\ req.seen[i].content = req.request
        /\ pc \in {"test_spawn", "test_wait", "apply_spawn", "apply_wait"}
              => /\ conf_file = ConfFile(req.genid)
                 /\ files[conf_file] = req.request
                 \* "frr-config-gen-3.conf", "frr-config-gen--1.conf"
                 /\ req.genid = 3 =>
                       conf_file = <<102, 114, 114, 45, 99, 111, 110, 102,
                                     105, 103, 45, 103, 101, 110, 45, 51,
                                     46, 99, 111, 110, 102>>
                 /\ req.genid = -1 =>
                       conf_file = <<102, 114, 114, 45, 99, 111, 110, 102,
                                     105, 103, 45, 103, 101, 110, 45, 45, 49,
                                     46, 99, 111, 110, 102>>

\* C19's case: both phases were started for a request that restaged a
\* generation id whose file held another payload.
C19_Witness ==
    /\ req.rid # 0
    /\ pc = "apply_wait"
    /\ Len(req.seen) = 2
    /\ req.request = ConfigB
    /\ ConfFile(req.genid) \in DOMAIN req.files0
    /\ req.files0[ConfFile(req.genid)] = ConfigA

\* C20 as stated: a request that has gone through the sleep of the delay
\* step is one dispatched to frr_reload; a keepalive and a request answered
\* in forced-success mode get their response without it.
C20_DelayOnlyBeforeReload ==
    (req.rid # 0 /\ req.slept)
        => DispatchBranch(req.request, args.always_ok) = "reload"

\* C20, amended: the delay step comes once for every decoded request, right
\* after the decoding and right before the dispatch, whatever the branch:
\* with a delay configured every request past that step has slept, the
\* keepalive and the forced-success ones included, and without one none
\* has; on the reload branch the dispatch goes straight on to the reload.
C20_DelayBeforeEveryDispatch ==
    [][/\ req'.rid # 0
             => (req'.slept
                    <=> (args.proc_time # NoProcTime /\ pc' # "proc_time"))
       /\ (pc = "recv" /\ pc' # pc) => pc' \in {"proc_time", "accept"}
       /\ (pc = "proc_time" /\ pc' # pc) => pc' = "dispatch"
       /\ (pc = "dispatch" /\ pc' # pc
              /\ DispatchBranch(req.request, args.always_ok) = "reload")
             => pc' = "stage"
      ]_vars

\* C20's case: a keepalive is about to be answered after the sleep, by an
\* agent that is not in forced-success mode.
C20_Witness ==
    /\ pc = "send"
    /\ req.rid # 0
    /\ req.request = KeepaliveStr
    /\ ~args.always_ok
    /\ req.slept

=============================================================================
